---- MODULE Spec2Model ----
(***************************************************************************)
(* Three hardware random number generator drivers and their polling read:  *)
(*   tx4939_rng_read  (TX4939 SoC RNG, 64-bit words, 3 output registers)   *)
(*   mxc_rnga_read    (Freescale RNGA, 32-bit words, output FIFO)          *)
(*   ath9k_rng_read   (ath9k ADC noise, 32-bit words from sample pairs)    *)
(* One driver is examined per behaviour (chosen in Init).  A read call is  *)
(* a sequence of steps (pc); the hardware answers every register read.     *)
(***************************************************************************)
EXTENDS Integers, Sequences, FiniteSets, TLC

(* ------------------------------ bounds ---------------------------------- *)
\* capacities tried: w whole words plus r spare bytes, w <= MaxWords, r <= MaxRem
MaxWords == 4
MaxRem == 3
\* largest FIFO level the RNGA status register reports in the model
MaxLevel == 5
\* generations the TX4939 hardware completes after a reset in the model
MaxGen == 4

(* -------------------------- program constants --------------------------- *)
EINVAL == 22
EIO == 5
ENOMEM == 12
EBUSY == 16
EEXIST == 17
ENODEV == 19
ENOENT == 2
\* sizeof(u32), sizeof(u64)
SizeofU32 == 4
SizeofU64 == 8

RNGA_CONTROL_SLEEP == 16
RNGA_CONTROL_CLEAR_INT == 8
RNGA_CONTROL_GO == 1
RNGA_STATUS_ERROR_INT == 8
RNGA_STATUS_FIFO_UNDERFLOW == 4
\* RNGA_STATUS_LEVEL_MASK 0x0000ff00: bits 8..15
LevelShift == 256
TX4939_RNG_RCSR_ST == 1
TX4939_RNG_RCSR_FIN == 2
\* number of output registers ROR(0..2) copied per read
TxOutputRegs == 3
\* sizeof(flush) in tx4939_rng_probe: u64 flush[3]
FlushBytes == 24
\* number of results dropped by tx4939_rng_probe
FlushReads == 2

Chips == {"tx4939", "rnga", "ath9k"}

Min(a, b) == IF a < b THEN a ELSE b

\* x & m for a mask m that is a single bit (m a power of two)
BitAnd(x, m) == ((x \div m) % 2) * m

\* x & ~m and x | m for a single-bit mask m
ClearBit(x, m) == x - BitAnd(x, m)
SetBit(x, m) == x - BitAnd(x, m) + m

\* word size of each driver's output
WordSize(c) == IF c = "tx4939" THEN SizeofU64 ELSE SizeofU32

\* capacities (the max argument, in bytes) a caller may pass: whole words plus
\* a few spare bytes, or one byte short of the next word
Caps(ws) ==
  { w * ws + r : w \in 0..MaxWords, r \in (0..MaxRem) \cup {ws - 1} }

\* the caller's buffer in words; Untouched marks a word the call did not write
Untouched == -1
BufIdx == 0..(MaxWords + 1)
FreshBuf == [k \in BufIdx |-> Untouched]

VARIABLES
  chip,        \* the driver this behaviour examines
  life,        \* "unbound", the steps of a probe, "registered", "failed",
               \* and after a detach "removed" or "crashed"
  pc,          \* position inside the read call, "idle" between calls
  caller,      \* "hwrng" (the framework) or "probe" (tx4939 discard reads)
  cap,         \* the max argument as passed
  max,         \* the local max (overwritten by the drain count)
  wait,        \* the wait argument
  present,     \* local present (tx4939, rnga)
  retries,     \* local retries
  i,           \* local i
  err,         \* local err (rnga)
  ret,         \* return value, meaningful when pc = "done"
  out,         \* the caller's buffer, in words
  u32s_read,   \* local u32s_read (ath9k_rng_read)
  j,           \* local j (ath9k_rng_data_read)
  rng_last,    \* local rng_last (ath9k_rng_data_read)
  sc_rng_last, \* sc->rng_last
  tx_st,       \* hardware: RCSR.ST is set (generation in progress)
  tx_gen,      \* hardware: generations completed since the last reset
  rnga_errint, \* hardware: error interrupt latched in RNGA_STATUS
  flush_i,     \* local i of tx4939_rng_probe
  probe_ret,   \* return value of the probe, meaningful when life is final
  nPred,       \* evaluations of the ready predicate in this call
  nDelay,      \* retry delays in this call
  nRead,       \* register reads in this call
  nWrite,      \* register writes in this call
  nData,       \* data register / FIFO / sample reads in this call
  nGood,       \* rnga: FIFO reads whose status check found no error
  nClear,      \* rnga: writes of CONTROL with CLEAR_INT set in this call
  ready0,      \* outcome of the initial predicate check: "unk", "yes", "no"
  avail,       \* words the hardware offered at the latest predicate check
  rnga_ctrl,   \* hardware: RNGA_CONTROL register
  clk_on,      \* rnga: the clock is prepared and enabled
  nClkOff,     \* rnga: calls of clk_disable_unprepare so far
  hwrng_reg,   \* rnga: the framework holds the source as registered
  drvdata,     \* driver data of the platform device: "NULL" or the instance
  init_log,    \* rnga: register accesses mxc_rnga_init made, in order
  hw_last,     \* ghost: the second sample of the pair the hardware delivered last
  config_64bit, \* build option CONFIG_64BIT (TX4939 driver)
  irq,         \* local interrupt state: off (disabled), viol (ghost: rule breaches seen)
  tx_last_gen  \* ghost: generation the last successful tx4939_rng_read returned words of

frame == <<cap, max, wait, present, retries, i, err, ret, out, u32s_read, j,
           rng_last>>
counters == <<nPred, nDelay, nRead, nWrite, nData, nGood, nClear, ready0,
              avail>>
hw == <<tx_st, tx_gen, rnga_errint>>
vars == <<chip, life, pc, caller, frame, sc_rng_last, hw, flush_i, probe_ret,
          counters, rnga_ctrl, clk_on, nClkOff, hwrng_reg, drvdata, init_log,
          hw_last,
          config_64bit,
          irq,
          tx_last_gen>>

\* locals and access counts of a call that has not started
FrameIdle ==
  /\ cap = 0 /\ max = 0 /\ wait = FALSE /\ present = 0 /\ retries = 0
  /\ i = 0 /\ err = 0 /\ ret = 0 /\ out = FreshBuf /\ u32s_read = 0
  /\ j = 0 /\ rng_last = 0
  /\ nPred = 0 /\ nDelay = 0 /\ nRead = 0 /\ nWrite = 0 /\ nData = 0
  /\ nGood = 0 /\ nClear = 0 /\ ready0 = "unk" /\ avail = 0

\* entry of a read call: arguments bound, locals initialised (retries = 20);
\* a capacity below one word returns -EINVAL at once, else the call goes on at `next'
EnterRead(m, w, who, small, next) ==
  /\ caller' = who
  /\ cap' = m /\ max' = m /\ wait' = w
  /\ present' = 0 /\ retries' = 20 /\ i' = 0 /\ err' = 0
  /\ out' = FreshBuf /\ u32s_read' = 0 /\ j' = 0 /\ rng_last' = 0
  /\ nPred' = 0 /\ nDelay' = 0 /\ nRead' = 0 /\ nWrite' = 0 /\ nData' = 0
  /\ nGood' = 0 /\ nClear' = 0 /\ ready0' = "unk" /\ avail' = 0
  /\ pc' = IF small THEN "done" ELSE next
  /\ ret' = IF small THEN -EINVAL ELSE 0

\* the framework takes the result; the frame of the call is gone
Return ==
  /\ pc = "done" /\ caller = "hwrng"
  /\ pc' = "idle"
  /\ cap' = 0 /\ max' = 0 /\ wait' = FALSE /\ present' = 0 /\ retries' = 0
  /\ i' = 0 /\ err' = 0 /\ ret' = 0 /\ out' = FreshBuf /\ u32s_read' = 0
  /\ j' = 0 /\ rng_last' = 0
  /\ nPred' = 0 /\ nDelay' = 0 /\ nRead' = 0 /\ nWrite' = 0 /\ nData' = 0
  /\ nGood' = 0 /\ nClear' = 0 /\ ready0' = "unk" /\ avail' = 0
  /\ UNCHANGED <<chip, life, caller, sc_rng_last, hw, flush_i, probe_ret,
                 rnga_ctrl, clk_on, nClkOff, hwrng_reg, drvdata, init_log,
                 hw_last, config_64bit, irq, tx_last_gen>>

(* ============================ Freescale RNGA ============================ *)

\* values RNGA_STATUS can return: FIFO level, error interrupt latch, underflow
RngaStatus(level, e, u) ==
  level * LevelShift + (IF e THEN RNGA_STATUS_ERROR_INT ELSE 0)
                     + (IF u THEN RNGA_STATUS_FIFO_UNDERFLOW ELSE 0)

\* status & RNGA_STATUS_LEVEL_MASK
RngaLevelField(s) == ((s \div LevelShift) % 256) * LevelShift

\* the word the n-th FIFO read of a call returns, named by its place in the
\* stream the FIFO delivers
FifoWord(n) == n

\* mutant: only an empty buffer is rejected
mxc_too_small_zero(m) == m = 0

\* if (WARN_ON(max < sizeof(u32)))
mxc_too_small(m) == m < SizeofU32

\* mutant: the budget test is retries-- >= 0, one pass too many
mxc_poll_cond_extra(w, p, r) == w /\ p = 0 /\ r >= 0

\* while (wait && !present && retries--): the condition lets the body run
mxc_poll_cond(w, p, r) == w /\ p = 0 /\ r # 0

\* mutant: the FIFO level alone decides, the capacity is forgotten
mxc_drain_count_level(p, m) == p \div LevelShift

\* max = min((size_t)present >> 8, max / sizeof(u32))
mxc_drain_count(p, m) == Min(p \div LevelShift, m \div SizeofU32)

\* mutant: the error interrupt is never acted on
mxc_err_ignored(e) == FALSE

\* if (err) goto err_clear
mxc_err_detected(e) == e # 0

\* mutant: a drain that produced nothing is reported as an I/O error
mxc_result_eio(n) == IF n = 0 THEN -EIO ELSE n * SizeofU32

\* return i * sizeof(u32), on both return paths of the drain
mxc_result(n) == n * SizeofU32

\* mxc_rnga_read called by the framework: the argument check
mxc_rnga_read_call ==
  /\ chip = "rnga" /\ life = "registered" /\ pc = "idle"
  /\ \E m \in Caps(SizeofU32), w \in BOOLEAN :
       EnterRead(m, w, "hwrng", mxc_too_small(m), "status")
  /\ UNCHANGED <<chip, life, sc_rng_last, hw, flush_i, probe_ret, rnga_ctrl,
                 clk_on, nClkOff, hwrng_reg, drvdata, init_log, hw_last,
                 config_64bit, irq, tx_last_gen>>

\* present = __raw_readl(STATUS) & RNGA_STATUS_LEVEL_MASK (the initial check)
mxc_rnga_read_status ==
  /\ chip = "rnga" /\ pc = "status"
  /\ \E level \in 0..MaxLevel, u \in BOOLEAN :
       /\ present' = RngaLevelField(RngaStatus(level, rnga_errint, u))
       /\ ready0' = IF level # 0 THEN "yes" ELSE "no"
       /\ avail' = level
  /\ nPred' = nPred + 1 /\ nRead' = nRead + 1
  /\ pc' = "poll"
  /\ UNCHANGED <<chip, life, caller, cap, max, wait, retries, i, err, ret, out,
                 u32s_read, j, rng_last, sc_rng_last, hw, flush_i, probe_ret,
                 nDelay, nWrite, nData, nGood, nClear, rnga_ctrl, clk_on,
                 nClkOff, hwrng_reg, drvdata, init_log, hw_last,
                 config_64bit, irq, tx_last_gen>>

\* one pass of the retry loop: retries--, udelay(10), status read again
mxc_rnga_read_retry ==
  /\ chip = "rnga" /\ pc = "poll"
  /\ mxc_poll_cond(wait, present, retries)
  /\ retries' = retries - 1
  /\ nDelay' = nDelay + 1
  /\ \E level \in 0..MaxLevel, u \in BOOLEAN :
       /\ present' = RngaLevelField(RngaStatus(level, rnga_errint, u))
       /\ avail' = level
  /\ nPred' = nPred + 1 /\ nRead' = nRead + 1
  /\ UNCHANGED <<chip, life, pc, caller, cap, max, wait, i, err, ret, out,
                 u32s_read, j, rng_last, sc_rng_last, hw, flush_i, probe_ret,
                 nWrite, nData, nGood, nClear, ready0, rnga_ctrl, clk_on,
                 nClkOff, hwrng_reg, drvdata, init_log, hw_last,
                 config_64bit, irq, tx_last_gen>>

\* the loop ends (a failing retries-- still decrements); if (!present) return 0;
\* else the drain count is computed
mxc_rnga_read_present ==
  /\ chip = "rnga" /\ pc = "poll"
  /\ ~mxc_poll_cond(wait, present, retries)
  /\ retries' = IF wait /\ present = 0 THEN retries - 1 ELSE retries
  /\ IF present = 0
       THEN /\ pc' = "done" /\ ret' = 0
            /\ UNCHANGED <<max, i>>
       ELSE /\ pc' = "drain"
            /\ max' = mxc_drain_count(present, max)
            /\ i' = 0
            /\ UNCHANGED ret
  /\ UNCHANGED <<chip, life, caller, cap, wait, present, err, out, u32s_read, j,
                 rng_last, sc_rng_last, hw, flush_i, probe_ret, counters,
                 rnga_ctrl, clk_on, nClkOff, hwrng_reg, drvdata, init_log,
                 hw_last, config_64bit, irq, tx_last_gen>>

\* one pass of for (i = 0; i < max; i++): FIFO read into out[i], then the
\* status read for ERROR_INT (the hardware may latch an error on the FIFO read)
mxc_rnga_read_drain ==
  /\ chip = "rnga" /\ pc = "drain" /\ i < max
  /\ out' = [out EXCEPT ![i] = FifoWord(nData + 1)]
  /\ nData' = nData + 1
  /\ nRead' = nRead + 2
  /\ \E fault \in BOOLEAN, u \in BOOLEAN :
       /\ rnga_errint' = (rnga_errint \/ fault)
       /\ err' = BitAnd(RngaStatus(0, rnga_errint', u), RNGA_STATUS_ERROR_INT)
  /\ nGood' = IF rnga_errint' THEN nGood ELSE nGood + 1
  /\ IF mxc_err_detected(err')
       THEN pc' = "err_clear" /\ UNCHANGED i
       ELSE pc' = "drain" /\ i' = i + 1
  /\ UNCHANGED <<chip, life, caller, cap, max, wait, present, retries, ret,
                 u32s_read, j, rng_last, sc_rng_last, tx_st, tx_gen, flush_i,
                 probe_ret, nPred, nDelay, nWrite, nClear, ready0,
                 avail, rnga_ctrl, clk_on, nClkOff, hwrng_reg, drvdata,
                 init_log, hw_last, config_64bit, irq, tx_last_gen>>

\* the loop ran out: return i * sizeof(u32)
mxc_rnga_read_return ==
  /\ chip = "rnga" /\ pc = "drain" /\ ~(i < max)
  /\ ret' = mxc_result(i)
  /\ pc' = "done"
  /\ UNCHANGED <<chip, life, caller, cap, max, wait, present, retries, i, err,
                 out, u32s_read, j, rng_last, sc_rng_last, hw, flush_i,
                 probe_ret, counters, rnga_ctrl, clk_on, nClkOff, hwrng_reg,
                 drvdata, init_log, hw_last, config_64bit, irq, tx_last_gen>>

\* mutant: the error path returns without writing CLEAR_INT
mxc_rnga_read_err_kept ==
  /\ chip = "rnga" /\ pc = "err_clear"
  /\ nRead' = nRead + 1
  /\ ret' = mxc_result(i)
  /\ pc' = "done"
  /\ UNCHANGED <<chip, life, caller, cap, max, wait, present, retries, i, err,
                 out, u32s_read, j, rng_last, sc_rng_last, hw, flush_i,
                 probe_ret, nPred, nDelay, nWrite, nData, nGood, nClear, ready0,
                 avail, rnga_ctrl, clk_on, nClkOff, hwrng_reg, drvdata,
                 init_log, hw_last, config_64bit, irq, tx_last_gen>>

\* err_clear: ctrl = readl(CONTROL); writel(ctrl | CLEAR_INT, CONTROL);
\* return i * sizeof(u32).  The write clears the latched error interrupt.
mxc_rnga_read_err_clear ==
  /\ chip = "rnga" /\ pc = "err_clear"
  /\ nRead' = nRead + 1 /\ nWrite' = nWrite + 1 /\ nClear' = nClear + 1
  /\ rnga_ctrl' = SetBit(rnga_ctrl, RNGA_CONTROL_CLEAR_INT)
  /\ rnga_errint' = FALSE
  /\ ret' = mxc_result(i)
  /\ pc' = "done"
  /\ UNCHANGED <<chip, life, caller, cap, max, wait, present, retries, i, err,
                 out, u32s_read, j, rng_last, sc_rng_last, tx_st, tx_gen,
                 flush_i, probe_ret, nPred, nDelay, nData, nGood, ready0,
                 avail, clk_on, nClkOff, hwrng_reg, drvdata,
                 init_log, hw_last, config_64bit, irq, tx_last_gen>>

\* hardware: an error interrupt is latched while no drain is looking
rnga_hw_fault ==
  /\ chip = "rnga" /\ pc \in {"idle", "status", "poll"}
  /\ ~rnga_errint
  /\ rnga_errint' = TRUE
  /\ UNCHANGED <<chip, life, pc, caller, frame, sc_rng_last, tx_st, tx_gen,
                 flush_i, probe_ret, counters, rnga_ctrl, clk_on, nClkOff,
                 hwrng_reg, drvdata, init_log, hw_last, config_64bit, irq,
                 tx_last_gen>>

mxc_rnga_read ==
  \/ mxc_rnga_read_call
  \/ mxc_rnga_read_status
  \/ mxc_rnga_read_retry
  \/ mxc_rnga_read_present
  \/ mxc_rnga_read_drain
  \/ mxc_rnga_read_return
  \/ mxc_rnga_read_err_clear

(* ---------------------- RNGA attach, init and detach -------------------- *)

\* variables the RNGA lifecycle steps leave alone
rnga_rest == <<chip, pc, caller, frame, sc_rng_last, hw, flush_i, counters>>

\* mutant: the wake-up write sets SLEEP instead of clearing it
mxc_wake_sleep(ctrl) == SetBit(ctrl, RNGA_CONTROL_SLEEP)

\* ctrl & ~RNGA_CONTROL_SLEEP
mxc_wake(ctrl) == ClearBit(ctrl, RNGA_CONTROL_SLEEP)

\* mutant: the oscillator check is skipped
mxc_osc_unchecked(dead) == FALSE

\* osc & RNGA_STATUS_OSC_DEAD; bit 31 is kept as a flag of the status value
mxc_osc_dead(dead) == dead

\* ctrl | RNGA_CONTROL_GO
mxc_go(ctrl) == SetBit(ctrl, RNGA_CONTROL_GO)

\* mutant: the stop command clears the whole control register
mxc_stop_all(ctrl) == 0

\* ctrl & ~RNGA_CONTROL_GO
mxc_stop(ctrl) == ClearBit(ctrl, RNGA_CONTROL_GO)

\* RNGA_CONTROL before the driver touches it: asleep, with interrupts masked
\* and high assurance on, so that every write has other bits to preserve
RngaCtrlReset == 22

\* mxc_rnga_probe up to clk_prepare_enable: allocation, devm_clk_get and the
\* enable may each fail, and then the probe returns with the clock untouched
mxc_rnga_probe_clk ==
  /\ chip = "rnga" /\ life = "unbound"
  /\ \E how \in {"nomem", "noclk", "noenable", "ok"} :
       \/ /\ how = "nomem"
          /\ life' = "failed" /\ probe_ret' = -ENOMEM /\ UNCHANGED clk_on
       \/ /\ how = "noclk"
          /\ life' = "failed" /\ probe_ret' = -ENOENT /\ UNCHANGED clk_on
       \/ /\ how = "noenable"
          /\ life' = "failed" /\ probe_ret' = -EINVAL /\ UNCHANGED clk_on
       \/ /\ how = "ok"
          /\ life' = "mapping" /\ clk_on' = TRUE /\ UNCHANGED probe_ret
  /\ UNCHANGED <<rnga_rest, rnga_ctrl, nClkOff, hwrng_reg, drvdata, init_log,
                 hw_last, config_64bit, irq, tx_last_gen>>

\* devm_ioremap_resource; on failure goto err_ioremap: clk_disable_unprepare
mxc_rnga_probe_map ==
  /\ chip = "rnga" /\ life = "mapping"
  /\ \E ok \in BOOLEAN :
       IF ok
         THEN life' = "registering" /\ UNCHANGED <<probe_ret, clk_on, nClkOff>>
         ELSE /\ life' = "failed" /\ probe_ret' = -EBUSY
              /\ clk_on' = FALSE /\ nClkOff' = nClkOff + 1
  /\ UNCHANGED <<rnga_rest, rnga_ctrl, hwrng_reg, drvdata, init_log, hw_last,
                 config_64bit, irq, tx_last_gen>>

\* hwrng_register(&mxc_rng->rng) is entered: the framework either refuses
\* the source at once or runs its init hook
hwrng_register_call ==
  /\ chip = "rnga" /\ life = "registering"
  /\ \E refused \in BOOLEAN :
       IF refused
         THEN life' = "reg_done" /\ probe_ret' = -EEXIST
         ELSE life' = "init_wake" /\ UNCHANGED probe_ret
  /\ UNCHANGED <<rnga_rest, rnga_ctrl, clk_on, nClkOff, hwrng_reg, drvdata,
                 init_log, hw_last, config_64bit, irq, tx_last_gen>>

\* mxc_rnga_init, wake up: ctrl = readl(CONTROL); writel(ctrl & ~SLEEP)
mxc_rnga_init_wake ==
  /\ chip = "rnga" /\ life = "init_wake"
  /\ rnga_ctrl' = mxc_wake(rnga_ctrl)
  /\ init_log' = Append(init_log, "wake")
  /\ life' = "init_osc"
  /\ UNCHANGED <<rnga_rest, probe_ret, clk_on, nClkOff, hwrng_reg, drvdata,
                 hw_last, config_64bit, irq, tx_last_gen>>

\* mxc_rnga_init, oscillator check: osc = readl(STATUS);
\* if (osc & OSC_DEAD) return -ENODEV
mxc_rnga_init_osc ==
  /\ chip = "rnga" /\ life = "init_osc"
  /\ \E dead \in BOOLEAN :
       /\ init_log' = Append(init_log, IF dead THEN "osc_dead" ELSE "osc_ok")
       /\ IF mxc_osc_dead(dead)
            THEN life' = "init_done" /\ probe_ret' = -ENODEV
            ELSE life' = "init_go" /\ UNCHANGED probe_ret
  /\ UNCHANGED <<rnga_rest, rnga_ctrl, clk_on, nClkOff, hwrng_reg, drvdata,
                 hw_last, config_64bit, irq, tx_last_gen>>

\* mxc_rnga_init, go running: ctrl = readl(CONTROL); writel(ctrl | GO);
\* return 0
mxc_rnga_init_go ==
  /\ chip = "rnga" /\ life = "init_go"
  /\ rnga_ctrl' = mxc_go(rnga_ctrl)
  /\ init_log' = Append(init_log, "go")
  /\ probe_ret' = 0
  /\ life' = "init_done"
  /\ UNCHANGED <<rnga_rest, clk_on, nClkOff, hwrng_reg, drvdata, hw_last,
                 config_64bit, irq, tx_last_gen>>

mxc_rnga_init ==
  \/ mxc_rnga_init_wake
  \/ mxc_rnga_init_osc
  \/ mxc_rnga_init_go

\* hwrng_register returns what the init hook returned; the source is
\* registered when that is 0
hwrng_register_done ==
  /\ chip = "rnga" /\ life = "init_done"
  /\ hwrng_reg' = (probe_ret = 0)
  /\ life' = "reg_done"
  /\ UNCHANGED <<rnga_rest, probe_ret, rnga_ctrl, clk_on, nClkOff, drvdata,
                 init_log, hw_last, config_64bit, irq, tx_last_gen>>

\* err = hwrng_register(...); if (err) goto err_ioremap (clk_disable_unprepare,
\* return err); else return 0.  No platform_set_drvdata is made.
mxc_rnga_probe_registered ==
  /\ chip = "rnga" /\ life = "reg_done"
  /\ IF probe_ret # 0
       THEN /\ life' = "failed"
            /\ clk_on' = FALSE /\ nClkOff' = nClkOff + 1
       ELSE /\ life' = "registered"
            /\ UNCHANGED <<clk_on, nClkOff>>
  /\ UNCHANGED <<rnga_rest, probe_ret, rnga_ctrl, hwrng_reg, drvdata, init_log,
                 hw_last, config_64bit, irq, tx_last_gen>>

mxc_rnga_probe ==
  \/ mxc_rnga_probe_clk
  \/ mxc_rnga_probe_map
  \/ mxc_rnga_probe_registered

\* mxc_rnga_remove: mxc_rng = platform_get_drvdata(pdev);
\* hwrng_unregister(&mxc_rng->rng), which runs mxc_rnga_cleanup
\* (ctrl = readl(CONTROL); writel(ctrl & ~GO)) on the current source;
\* clk_disable_unprepare(mxc_rng->clk).  With driver data that was never set
\* mxc_rng is NULL and both calls work on members of a null structure: the
\* call either faults ("oops", the device stays as it was and the detach never
\* completes) or runs through on stray memory without reaching the instance.
mxc_rnga_remove ==
  /\ chip = "rnga" /\ life = "registered" /\ pc = "idle"
  /\ IF drvdata = "mxc_rng"
       THEN /\ hwrng_reg' = FALSE
            /\ rnga_ctrl' = mxc_stop(rnga_ctrl)
            /\ clk_on' = FALSE /\ nClkOff' = nClkOff + 1
            /\ life' = "removed"
       ELSE /\ \E outcome \in {"oops", "stray"} :
                 life' = IF outcome = "oops" THEN "crashed" ELSE "removed"
            /\ UNCHANGED <<hwrng_reg, rnga_ctrl, clk_on, nClkOff>>
  /\ UNCHANGED <<rnga_rest, probe_ret, drvdata, init_log, hw_last,
                 config_64bit, irq, tx_last_gen>>

(* ============================== TX4939 RNG ============================== *)

\* rng_io_start: local_irq_disable() unless CONFIG_64BIT; disabling what is
\* already disabled is noted as "nested"
rng_io_start(st) ==
  IF config_64bit THEN st
  ELSE [off |-> TRUE,
        viol |-> st.viol \cup (IF st.off THEN {"nested"} ELSE {})]

\* mutant: the interrupts are left disabled
rng_io_end_never(st) == st

\* rng_io_end: local_irq_enable() unless CONFIG_64BIT; enabling what is
\* already enabled is noted as "unpaired"
rng_io_end(st) ==
  IF config_64bit THEN st
  ELSE [off |-> FALSE,
        viol |-> st.viol \cup (IF st.off THEN {} ELSE {"unpaired"})]

\* read_rng / write_rng: one 64-bit load or store; with interrupts enabled it
\* is noted as "access_on"
rng_access(st) ==
  [st EXCEPT !.viol = @ \cup (IF st.off THEN {} ELSE {"access_on"})]

\* ndelay(90 * 5); with interrupts disabled it is noted as "delay_off"
rng_delay(st) ==
  [st EXCEPT !.viol = @ \cup (IF st.off THEN {"delay_off"} ELSE {})]

\* values RCSR can return: ST while a generation runs, FIN as the hardware likes
TxRcsr(st, fin) ==
  (IF st THEN TX4939_RNG_RCSR_ST ELSE 0) + (IF fin THEN TX4939_RNG_RCSR_FIN ELSE 0)

\* the word output register ROR(n) holds after generation g completed
TxWord(g, n) == g * TxOutputRegs + n

\* the generation a word of the TX4939 comes from
TxGenOf(v) == v \div TxOutputRegs

\* if (WARN_ON(max < sizeof(u64)))
tx_too_small(m) == m < SizeofU64

\* mutant: the source is taken as ready whatever RCSR says
tx_present_always(rcsr) == 1

\* present = !(read_rng(RCSR) & TX4939_RNG_RCSR_ST)
tx_present(rcsr) == IF BitAnd(rcsr, TX4939_RNG_RCSR_ST) = 0 THEN 1 ELSE 0

\* mutant: the loop retries whether or not the caller asked to wait
tx_poll_cond_nowait(w, p, r) == p = 0 /\ r # 0

\* mutant: the loop gives up without the re-check after the last delay
tx_poll_cond_short(w, p, r) == w /\ p = 0 /\ r > 1

\* while (wait && !present && retries--): the condition lets the body run
tx_poll_cond(w, p, r) == w /\ p = 0 /\ r # 0

\* mutant: all three output registers are copied whatever the capacity
tx_drain_count_all(m) == TxOutputRegs

\* max = min((size_t)3, max / sizeof(u64))
tx_drain_count(m) == Min(TxOutputRegs, m \div SizeofU64)

\* mutant: the last register copied is left out of the count
tx_result_short(n) == (n - 1) * SizeofU64

\* return i * sizeof(u64)
tx_result(n) == n * SizeofU64

\* mutant: only one result is dropped
tx_flush_once(n) == n < 1

\* number of discard reads the probe makes: for (i = 0; i < 2; i++)
tx_flush_more(n) == n < FlushReads

\* tx4939_rng_read called by the framework: the argument check
tx4939_rng_read_call ==
  /\ chip = "tx4939" /\ life = "registered" /\ pc = "idle"
  /\ \E m \in Caps(SizeofU64), w \in BOOLEAN :
       EnterRead(m, w, "hwrng", tx_too_small(m), "rcsr")
  /\ UNCHANGED <<chip, life, sc_rng_last, hw, flush_i, probe_ret, rnga_ctrl,
                 clk_on, nClkOff, hwrng_reg, drvdata, init_log, hw_last,
                 config_64bit, irq, tx_last_gen>>

\* the initial check of RCSR.ST
tx4939_rng_read_rcsr ==
  /\ chip = "tx4939" /\ pc = "rcsr"
  /\ irq' = rng_io_end(rng_access(rng_io_start(irq)))
  /\ \E fin \in BOOLEAN :
       present' = tx_present(TxRcsr(tx_st, fin))
  /\ ready0' = IF tx_st THEN "no" ELSE "yes"
  /\ avail' = IF tx_st THEN 0 ELSE TxOutputRegs
  /\ nPred' = nPred + 1 /\ nRead' = nRead + 1
  /\ pc' = "poll"
  /\ UNCHANGED <<chip, life, caller, cap, max, wait, retries, i, err, ret, out,
                 u32s_read, j, rng_last, sc_rng_last, hw, flush_i, probe_ret,
                 nDelay, nWrite, nData, nGood, nClear, rnga_ctrl, clk_on,
                 nClkOff, hwrng_reg, drvdata, init_log, hw_last,
                 config_64bit, tx_last_gen>>

\* one pass of the retry loop: retries--, ndelay(90 * 5), RCSR read again
tx4939_rng_read_retry ==
  /\ chip = "tx4939" /\ pc = "poll"
  /\ tx_poll_cond(wait, present, retries)
  /\ retries' = retries - 1
  /\ nDelay' = nDelay + 1
  /\ irq' = rng_io_end(rng_access(rng_io_start(rng_delay(irq))))
  /\ \E fin \in BOOLEAN :
       present' = tx_present(TxRcsr(tx_st, fin))
  /\ avail' = IF tx_st THEN 0 ELSE TxOutputRegs
  /\ nPred' = nPred + 1 /\ nRead' = nRead + 1
  /\ UNCHANGED <<chip, life, pc, caller, cap, max, wait, i, err, ret, out,
                 u32s_read, j, rng_last, sc_rng_last, hw, flush_i, probe_ret,
                 nWrite, nData, nGood, nClear, ready0, rnga_ctrl, clk_on,
                 nClkOff, hwrng_reg, drvdata, init_log, hw_last,
                 config_64bit, tx_last_gen>>

\* the loop ends; if (!present) return 0; else the drain count is computed and
\* rng_io_start() opens the drain
tx4939_rng_read_present ==
  /\ chip = "tx4939" /\ pc = "poll"
  /\ ~tx_poll_cond(wait, present, retries)
  /\ retries' = IF wait /\ present = 0 THEN retries - 1 ELSE retries
  /\ IF present = 0
       THEN /\ pc' = "done" /\ ret' = 0
            /\ UNCHANGED irq
            /\ UNCHANGED <<max, i>>
       ELSE /\ pc' = "drain"
            /\ max' = tx_drain_count(max)
            /\ i' = 0
            /\ irq' = rng_io_start(irq)
            /\ UNCHANGED ret
  /\ UNCHANGED <<chip, life, caller, cap, wait, present, err, out, u32s_read, j,
                 rng_last, sc_rng_last, hw, flush_i, probe_ret, counters,
                 rnga_ctrl, clk_on, nClkOff, hwrng_reg, drvdata, init_log,
                 hw_last, config_64bit, tx_last_gen>>

\* one pass of for (i = 0; i < max; i++) out[i] = read_rng(ROR(i))
tx4939_rng_read_drain ==
  /\ chip = "tx4939" /\ pc = "drain" /\ i < max
  /\ out' = [out EXCEPT ![i] = TxWord(tx_gen, i)]
  /\ i' = i + 1
  /\ irq' = rng_access(irq)
  /\ nData' = nData + 1 /\ nRead' = nRead + 1
  /\ UNCHANGED <<chip, life, pc, caller, cap, max, wait, present, retries, err,
                 ret, u32s_read, j, rng_last, sc_rng_last, hw, flush_i,
                 probe_ret, nPred, nDelay, nWrite, nGood, nClear, ready0,
                 avail, rnga_ctrl, clk_on, nClkOff, hwrng_reg, drvdata,
                 init_log, hw_last, config_64bit, tx_last_gen>>

\* mutant: the next generation is started only after a full three-register
\* drain
tx4939_rng_read_start_full ==
  /\ chip = "tx4939" /\ pc = "drain" /\ ~(i < max)
  /\ tx_st' = (tx_st \/ i = TxOutputRegs)
  /\ nWrite' = IF i = TxOutputRegs THEN nWrite + 1 ELSE nWrite
  /\ ret' = tx_result(i)
  /\ pc' = "done"
  /\ tx_last_gen' = tx_gen
  /\ irq' = rng_io_end(rng_access(irq))
  /\ UNCHANGED <<chip, life, caller, cap, max, wait, present, retries, i, err,
                 out, u32s_read, j, rng_last, sc_rng_last, tx_gen, rnga_errint,
                 flush_i, probe_ret, nPred, nDelay, nRead, nData, nGood, nClear,
                 ready0, avail, rnga_ctrl, clk_on, nClkOff, hwrng_reg, drvdata,
                 init_log, hw_last, config_64bit>>

\* the loop ran out: write_rng(ST, RCSR) starts the next generation;
\* return i * sizeof(u64)
tx4939_rng_read_start ==
  /\ chip = "tx4939" /\ pc = "drain" /\ ~(i < max)
  /\ tx_st' = TRUE
  /\ nWrite' = nWrite + 1
  /\ ret' = tx_result(i)
  /\ pc' = "done"
  /\ tx_last_gen' = tx_gen
  /\ irq' = rng_io_end(rng_access(irq))
  /\ UNCHANGED <<chip, life, caller, cap, max, wait, present, retries, i, err,
                 out, u32s_read, j, rng_last, sc_rng_last, tx_gen, rnga_errint,
                 flush_i, probe_ret, nPred, nDelay, nRead, nData, nGood, nClear,
                 ready0,
                 avail, rnga_ctrl, clk_on, nClkOff, hwrng_reg, drvdata,
                 init_log, hw_last, config_64bit>>

tx4939_rng_read ==
  \/ tx4939_rng_read_call
  \/ tx4939_rng_read_rcsr
  \/ tx4939_rng_read_retry
  \/ tx4939_rng_read_present
  \/ tx4939_rng_read_drain
  \/ tx4939_rng_read_start

\* hardware: the running generation completes, ST clears, ROR(0..2) are new
tx_hw_generate ==
  /\ chip = "tx4939" /\ tx_st /\ tx_gen < MaxGen
  /\ tx_st' = FALSE
  /\ tx_gen' = tx_gen + 1
  /\ UNCHANGED <<chip, life, pc, caller, frame, sc_rng_last, rnga_errint,
                 flush_i, probe_ret, counters, rnga_ctrl, clk_on, nClkOff,
                 hwrng_reg, drvdata, init_log, hw_last, config_64bit, irq,
                 tx_last_gen>>

\* tx4939_rng_probe up to the discard loop: allocation and register mapping
\* may fail; else RCSR = RST, RCSR = 0, RCSR = ST (reset, then start)
tx4939_rng_probe_reset ==
  /\ chip = "tx4939" /\ life = "unbound"
  /\ \E how \in {"nomem", "nomap", "ok"} :
       \/ /\ how = "nomem"
          /\ life' = "failed" /\ probe_ret' = -ENOMEM
          /\ UNCHANGED <<tx_st, tx_gen, flush_i, irq, tx_last_gen>>
       \/ /\ how = "nomap"
          /\ life' = "failed" /\ probe_ret' = -EBUSY
          /\ UNCHANGED <<tx_st, tx_gen, flush_i, irq, tx_last_gen>>
       \/ /\ how = "ok"
          /\ life' = "probing"
          /\ tx_gen' = 0 /\ tx_st' = TRUE
          /\ flush_i' = 0
          /\ tx_last_gen' = 0
          /\ irq' = rng_io_end(rng_access(rng_access(rng_access(
                                rng_io_start(irq)))))
          /\ UNCHANGED probe_ret
  /\ UNCHANGED <<chip, pc, caller, frame, sc_rng_last, rnga_errint, counters,
                 rnga_ctrl, clk_on, nClkOff, hwrng_reg, drvdata, init_log,
                 hw_last, config_64bit>>

\* the discard loop calls tx4939_rng_read(&rngdev->rng, flush, sizeof(flush), 1)
tx4939_rng_probe_flush ==
  /\ chip = "tx4939" /\ life = "probing" /\ pc = "idle"
  /\ tx_flush_more(flush_i)
  /\ EnterRead(FlushBytes, TRUE, "probe", tx_too_small(FlushBytes), "rcsr")
  /\ UNCHANGED <<chip, life, sc_rng_last, hw, flush_i, probe_ret, rnga_ctrl,
                 clk_on, nClkOff, hwrng_reg, drvdata, init_log, hw_last,
                 config_64bit, irq, tx_last_gen>>

\* if (!tx4939_rng_read(...)) return -EIO; else i++
tx4939_rng_probe_flushed ==
  /\ chip = "tx4939" /\ life = "probing" /\ pc = "done" /\ caller = "probe"
  /\ IF ret = 0
       THEN life' = "failed" /\ probe_ret' = -EIO /\ UNCHANGED flush_i
       ELSE flush_i' = flush_i + 1 /\ UNCHANGED <<life, probe_ret>>
  /\ pc' = "idle"
  /\ cap' = 0 /\ max' = 0 /\ wait' = FALSE /\ present' = 0 /\ retries' = 0
  /\ i' = 0 /\ err' = 0 /\ ret' = 0 /\ out' = FreshBuf /\ u32s_read' = 0
  /\ j' = 0 /\ rng_last' = 0
  /\ nPred' = 0 /\ nDelay' = 0 /\ nRead' = 0 /\ nWrite' = 0 /\ nData' = 0
  /\ nGood' = 0 /\ nClear' = 0 /\ ready0' = "unk" /\ avail' = 0
  /\ UNCHANGED <<chip, caller, sc_rng_last, hw, rnga_ctrl, clk_on, nClkOff,
                 hwrng_reg, drvdata, init_log, hw_last, config_64bit, irq,
                 tx_last_gen>>

\* platform_set_drvdata; return devm_hwrng_register(&dev->dev, &rngdev->rng)
tx4939_rng_probe_register ==
  /\ chip = "tx4939" /\ life = "probing" /\ pc = "idle"
  /\ ~tx_flush_more(flush_i)
  /\ \E ok \in BOOLEAN :
       IF ok THEN life' = "registered" /\ probe_ret' = 0
             ELSE life' = "failed" /\ probe_ret' = -EEXIST
  /\ drvdata' = "rngdev"
  /\ UNCHANGED <<chip, pc, caller, frame, sc_rng_last, hw, flush_i, counters,
                 rnga_ctrl, clk_on, nClkOff, hwrng_reg, init_log, hw_last,
                 config_64bit, irq, tx_last_gen>>

tx4939_rng_probe ==
  \/ tx4939_rng_probe_reset
  \/ tx4939_rng_probe_flush
  \/ tx4939_rng_probe_flushed
  \/ tx4939_rng_probe_register

(* =============================== ath9k RNG ============================== *)

\* values REG_READ(ah, AR_PHY_TST_ADC) can return
RawSamples == {0, 1, 2, 65535, 65537}

\* raw & 0xffff
Low16(x) == x % 65536

\* if (WARN_ON(max < sizeof(u32)))
ath_too_small(m) == m < SizeofU32

\* mutant: the scan is asked for as many words as the buffer has bytes
ath_buf_size_bytes(m) == m

\* the buf_size argument: max / sizeof(u32)
ath_buf_size(m) == m \div SizeofU32

\* mutant: the first sample is not compared with the previous pair
ath_accept_norepeat(v1, v2, last) ==
  /\ v1 # 0 /\ v2 # 0 /\ v1 # v2 /\ v1 # 65535 /\ v2 # 65535

\* if (v1 && v2 && rng_last != v1 && v1 != v2 && v1 != 0xffff && v2 != 0xffff)
ath_accept(v1, v2, last) ==
  /\ v1 # 0 /\ v2 # 0 /\ last # v1 /\ v1 # v2 /\ v1 # 65535 /\ v2 # 65535

\* (v1 << 16) | v2: both are below 65536 after the mask, so the shift loses no
\* bit of a u32 and the or adds v2
ath_word(v1, v2) == v1 * 65536 + v2

\* mutant: the loop scans again although the last scan found words
ath_poll_cond_blind(w, n, r) == w /\ r # 0

\* while (wait && !u32s_read && retries--): the condition lets the body run
ath_poll_cond(w, n, r) == w /\ n = 0 /\ r # 0

\* return u32s_read * sizeof(u32)
ath_result(n) == n * SizeofU32

\* ath9k_rng_read called by the framework: the argument check
ath9k_rng_read_call ==
  /\ chip = "ath9k" /\ life = "registered" /\ pc = "idle"
  /\ \E m \in Caps(SizeofU32), w \in BOOLEAN :
       EnterRead(m, w, "hwrng", ath_too_small(m), "scan_begin")
  /\ UNCHANGED <<chip, life, sc_rng_last, hw, flush_i, probe_ret, rnga_ctrl,
                 clk_on, nClkOff, hwrng_reg, drvdata, init_log, hw_last,
                 config_64bit, irq, tx_last_gen>>

\* ath9k_rng_data_read up to its loop: rng_last = sc->rng_last, power-save
\* wakeup, three read-modify-write register updates, i = 0, j = 0
ath9k_rng_data_read_begin ==
  /\ chip = "ath9k" /\ pc = "scan_begin"
  /\ rng_last' = sc_rng_last
  /\ i' = 0 /\ j' = 0
  /\ nPred' = nPred + 1
  /\ nRead' = nRead + 3 /\ nWrite' = nWrite + 3
  /\ pc' = "scan"
  /\ UNCHANGED <<chip, life, caller, cap, max, wait, present, retries, err, ret,
                 out, u32s_read, sc_rng_last, hw, flush_i, probe_ret, nDelay,
                 nData, nGood, nClear, ready0,
                 avail, rnga_ctrl, clk_on, nClkOff, hwrng_reg, drvdata,
                 init_log, hw_last, config_64bit, irq, tx_last_gen>>

\* one pass of for (i = 0, j = 0; i < buf_size; i++): two sample reads, the
\* filter, rng_last = v2
ath9k_rng_data_read_pair ==
  /\ chip = "ath9k" /\ pc = "scan" /\ i < ath_buf_size(max)
  /\ \E r1 \in RawSamples, r2 \in RawSamples :
       LET v1 == Low16(r1)
           v2 == Low16(r2)
       IN /\ IF ath_accept(v1, v2, rng_last)
               THEN /\ out' = [out EXCEPT ![j] = ath_word(v1, v2)]
                    /\ j' = j + 1
               ELSE UNCHANGED <<out, j>>
          /\ rng_last' = v2
          /\ hw_last' = v2
  /\ i' = i + 1
  /\ nRead' = nRead + 2 /\ nData' = nData + 2
  /\ UNCHANGED <<chip, life, pc, caller, cap, max, wait, present, retries, err,
                 ret, u32s_read, sc_rng_last, hw, flush_i, probe_ret, nPred,
                 nDelay, nWrite, nGood, nClear, ready0,
                 avail, rnga_ctrl, clk_on, nClkOff, hwrng_reg, drvdata,
                 init_log, config_64bit, irq, tx_last_gen>>

\* the loop ran out: power-save restore, sc->rng_last = rng_last, return j
\* (which ath9k_rng_read stores in u32s_read)
ath9k_rng_data_read_end ==
  /\ chip = "ath9k" /\ pc = "scan" /\ ~(i < ath_buf_size(max))
  /\ sc_rng_last' = rng_last
  /\ u32s_read' = j
  /\ ready0' = IF nPred = 1 THEN (IF j # 0 THEN "yes" ELSE "no") ELSE ready0
  /\ avail' = j
  /\ pc' = "poll"
  /\ UNCHANGED <<chip, life, caller, cap, max, wait, present, retries, i, err,
                 ret, out, j, rng_last, hw, flush_i, probe_ret, nPred, nDelay,
                 nRead, nWrite, nData, nGood, nClear, rnga_ctrl, clk_on,
                 nClkOff, hwrng_reg, drvdata, init_log, hw_last,
                 config_64bit, irq, tx_last_gen>>

\* one pass of the retry loop: retries--, udelay(10), then the scan again
ath9k_rng_read_retry ==
  /\ chip = "ath9k" /\ pc = "poll"
  /\ ath_poll_cond(wait, u32s_read, retries)
  /\ retries' = retries - 1
  /\ nDelay' = nDelay + 1
  /\ pc' = "scan_begin"
  /\ UNCHANGED <<chip, life, caller, cap, max, wait, present, i, err, ret, out,
                 u32s_read, j, rng_last, sc_rng_last, hw, flush_i, probe_ret,
                 nPred, nRead, nWrite, nData, nGood, nClear, ready0,
                 avail, rnga_ctrl, clk_on, nClkOff, hwrng_reg, drvdata,
                 init_log, hw_last, config_64bit, irq, tx_last_gen>>

\* the loop ends: return u32s_read * sizeof(u32)
ath9k_rng_read_return ==
  /\ chip = "ath9k" /\ pc = "poll"
  /\ ~ath_poll_cond(wait, u32s_read, retries)
  /\ retries' = IF wait /\ u32s_read = 0 THEN retries - 1 ELSE retries
  /\ ret' = ath_result(u32s_read)
  /\ pc' = "done"
  /\ UNCHANGED <<chip, life, caller, cap, max, wait, present, i, err, out,
                 u32s_read, j, rng_last, sc_rng_last, hw, flush_i, probe_ret,
                 counters, rnga_ctrl, clk_on, nClkOff, hwrng_reg, drvdata,
                 init_log, hw_last, config_64bit, irq, tx_last_gen>>

ath9k_rng_read ==
  \/ ath9k_rng_read_call
  \/ ath9k_rng_data_read_begin
  \/ ath9k_rng_data_read_pair
  \/ ath9k_rng_data_read_end
  \/ ath9k_rng_read_retry
  \/ ath9k_rng_read_return

(* ============================== the system ============================== *)

\* the TX4939 and RNGA sources start unbound (their probes are part of the
\* model); the ath9k source starts attached and registered
Init ==
  /\ chip \in Chips
  /\ life = IF chip = "ath9k" THEN "registered" ELSE "unbound"
  /\ pc = "idle" /\ caller = "hwrng"
  /\ FrameIdle
  /\ sc_rng_last = 0
  /\ tx_st \in (IF chip = "tx4939" THEN BOOLEAN ELSE {FALSE})
  /\ tx_gen = 0
  /\ rnga_errint = FALSE
  /\ flush_i = 0 /\ probe_ret = 0
  /\ rnga_ctrl = IF chip = "rnga" THEN RngaCtrlReset ELSE 0
  /\ clk_on = FALSE
  /\ nClkOff = 0
  /\ hwrng_reg = FALSE
  /\ drvdata = "NULL"
  /\ init_log = <<>>
  /\ hw_last = 0
  /\ config_64bit \in (IF chip = "tx4939" THEN BOOLEAN ELSE {FALSE})
  /\ irq = [off |-> FALSE, viol |-> {}]
  /\ tx_last_gen = 0

Next ==
  \/ tx4939_rng_probe
  \/ tx4939_rng_read
  \/ tx_hw_generate
  \/ mxc_rnga_probe
  \/ hwrng_register_call
  \/ mxc_rnga_init
  \/ hwrng_register_done
  \/ mxc_rnga_remove
  \/ mxc_rnga_read
  \/ rnga_hw_fault
  \/ ath9k_rng_read
  \/ Return

Spec == Init /\ [][Next]_vars

\* the steps a read call takes once it was entered: the CPU runs the function
\* to its return
ReadStep ==
  \/ mxc_rnga_read_status \/ mxc_rnga_read_retry \/ mxc_rnga_read_present
  \/ mxc_rnga_read_drain \/ mxc_rnga_read_return \/ mxc_rnga_read_err_clear
  \/ tx4939_rng_read_rcsr \/ tx4939_rng_read_retry \/ tx4939_rng_read_present
  \/ tx4939_rng_read_drain \/ tx4939_rng_read_start
  \/ ath9k_rng_data_read_begin \/ ath9k_rng_data_read_pair
  \/ ath9k_rng_data_read_end \/ ath9k_rng_read_retry \/ ath9k_rng_read_return

\* a call that was entered keeps executing; nothing is assumed of the hardware
LiveSpec == Spec /\ WF_vars(ReadStep)

(* =============================== the claims ============================= *)

WS == WordSize(chip)
InCall == pc # "idle"
Running == pc \notin {"idle", "done"}

\* C1: a read whose capacity is below one hardware word (8 bytes for TX4939, 4
\* for RNGA and ath9k) returns -EINVAL and makes no register read, no register
\* write, no delay and no buffer write, whatever wait is.
C1_SmallCapacityRejected ==
  (InCall /\ cap < WS) =>
     /\ pc = "done" /\ ret = -EINVAL
     /\ nRead = 0 /\ nWrite = 0 /\ nDelay = 0 /\ nPred = 0 /\ nData = 0
     /\ out = FreshBuf

C1_Witness ==
  pc = "done" /\ chip = "tx4939" /\ cap = 7 /\ wait /\ ret = -22

\* C2: with capacity of at least one word and wait set, the ready predicate is
\* evaluated at most 21 times and the retry delay runs at most 20 times,
\* whatever the hardware does; and every read call that was entered returns.
C2_BoundedRetries ==
  /\ []((InCall /\ cap >= WS /\ wait) => (nPred <= 21 /\ nDelay <= 20))
  /\ [](Running => <>(pc = "done"))

C2_Witness ==
  pc = "done" /\ wait /\ cap >= WS /\ nPred = 21 /\ nDelay = 20 /\ ret = 0

\* C3: with capacity of at least one word, wait clear and the predicate false
\* at the initial check, the call returns exactly 0, evaluates the predicate
\* once and never delays.
C3_NoWaitNotReady ==
  (InCall /\ cap >= WS /\ ~wait /\ ready0 = "no") =>
     /\ nPred = 1 /\ nDelay = 0
     /\ pc \in {"poll", "done"}
     /\ (pc = "done" => ret = 0)

C3_Witness ==
  pc = "done" /\ cap >= WS /\ ~wait /\ ready0 = "no" /\ ret = 0 /\ nPred = 1

\* C4: every non-error return value is a whole multiple of the word size and
\* at most the capacity rounded down to whole words, under every hardware
\* behaviour.
C4_WholeWordsWithinCapacity ==
  (pc = "done" /\ ret >= 0) =>
     /\ ret % WS = 0
     /\ ret <= (cap \div WS) * WS

C4_Witness ==
  /\ pc = "done" /\ chip = "rnga" /\ err # 0
  /\ cap = 13 /\ ret = 8 /\ avail = 5

\* C5: a fault-free drain of a ready TX4939 or RNGA source makes exactly
\* n = min(available, capacity / word) data reads and returns n words, where
\* available is 3 (TX4939) or the FIFO level of the status sample that
\* confirmed readiness (RNGA); the words land at indices 0..n-1 in read order
\* and nothing else is written.
C5_DrainCount ==
  (pc = "done" /\ chip \in {"tx4939", "rnga"} /\ cap >= WS /\ avail # 0
     /\ ~(chip = "rnga" /\ (err # 0 \/ nClear # 0))) =>
     LET n == Min(IF chip = "tx4939" THEN 3 ELSE avail, cap \div WS)
     IN /\ nData = n
        /\ ret = n * WS
        /\ IF chip = "rnga"
             THEN \A k \in BufIdx :
                    out[k] = IF k < n THEN FifoWord(k + 1) ELSE Untouched
             ELSE \E g \in 0..MaxGen : \A k \in BufIdx :
                    out[k] = IF k < n THEN TxWord(g, k) ELSE Untouched

C5_Witness ==
  /\ pc = "done" /\ chip = "rnga" /\ cap = 12 /\ avail = 5 /\ err = 0
  /\ ret = 12 /\ nData = 3

\* C6: in mxc_rnga_read, a fault seen after k clean word reads of a drain of n
\* planned words (0 <= k < n) returns exactly 4*k bytes, is followed by no
\* further FIFO read, and the CLEAR_INT write happens exactly once; a drain
\* that sees no fault never writes CLEAR_INT.
C6_FaultAfterK ==
  chip = "rnga" =>
     /\ (pc = "done" /\ err # 0) =>
          /\ ret = 4 * nGood
          /\ nGood < Min(avail, cap \div 4)
          /\ nData = nGood + 1
          /\ nClear = 1 /\ nWrite = 1
     /\ (pc = "err_clear") => (nData = nGood + 1 /\ nClear = 0)
     /\ (InCall /\ err = 0) => (nClear = 0 /\ nWrite = 0)

C6_Witness ==
  /\ chip = "rnga" /\ pc = "done" /\ err # 0
  /\ nGood = 2 /\ ret = 8 /\ nClear = 1 /\ Min(avail, cap \div 4) = 4

\* C7 as stated: a fault detected during a drain always gives a non-zero
\* byte count (after stopping and clearing the error).
C7_FaultReturnsNonZero ==
  (chip = "rnga" /\ pc = "done" /\ err # 0) =>
     (ret > 0 /\ ~rnga_errint /\ nData = nGood + 1)

\* C7 as amended: on a fault detected during a drain mxc_rnga_read stops at
\* once, clears the error condition and returns the non-negative count of the
\* words read before the faulting one: 0 when the fault is seen at the first
\* word, non-zero otherwise; the fault never makes the call fail.
C7_FaultReturnsPartial ==
  (chip = "rnga" /\ pc = "done" /\ err # 0) =>
     /\ ret >= 0
     /\ (ret = 0) = (nData = 1)
     /\ (ret > 0) => (ret = 4 * (nData - 1))
     /\ ~rnga_errint

C7_Witness ==
  chip = "rnga" /\ pc = "done" /\ err # 0 /\ ret = 0 /\ nData = 1 /\ cap = 16

\* C8: with capacity of at least one word the return value is never negative
\* (a source that is not ready yields 0, a fault yields a count); the only
\* error a read returns is -EINVAL, and only for a capacity below one word.
C8_OnlyEinval ==
  pc = "done" =>
     /\ (cap >= WS) => ret >= 0
     /\ (ret < 0) => (ret = -22 /\ cap < WS)
     /\ (cap >= WS /\ avail = 0) => ret = 0

C8_Witness ==
  pc = "done" /\ cap >= WS /\ wait /\ avail = 0 /\ nPred = 21 /\ ret = 0
    /\ chip = "ath9k"

\* C9: if the predicate is true at the initial check, the call goes on to the
\* drain with no delay and no second evaluation, also when wait is set.
C9_ReadyNoDelay ==
  (InCall /\ ready0 = "yes") =>
     /\ nDelay = 0 /\ nPred = 1
     /\ pc \in {"poll", "drain", "err_clear", "done"}
     /\ (pc = "done" /\ chip # "rnga") => ret > 0
     /\ (pc = "done" /\ chip = "rnga") => nData > 0

C9_Witness ==
  pc = "done" /\ wait /\ ready0 = "yes" /\ ret > 0 /\ chip = "ath9k"

\* C10: tx4939_rng_probe registers the source only after the reset/start
\* sequence and two blocking discard reads that each returned a non-zero
\* count; a discard read returning 0 fails the probe with -EIO and the source
\* is never registered; no read issued through the framework returns words of
\* the first or second generation after the reset.
C10_ProbeDiscardsTwo ==
  /\ []((chip = "tx4939" /\ life = "registered") => flush_i = 2)
  /\ []((chip = "tx4939" /\ caller = "probe" /\ InCall) =>
          (wait /\ cap = 24 /\ life = "probing" /\ flush_i < 2))
  /\ []((chip = "tx4939" /\ caller = "hwrng") =>
          \A k \in BufIdx : out[k] # Untouched => TxGenOf(out[k]) >= 3)
  /\ [][(chip = "tx4939" /\ caller = "probe" /\ pc = "done" /\ pc' = "idle") =>
          IF ret = 0
            THEN life' = "failed" /\ probe_ret' = -5
            ELSE life' = "probing" /\ flush_i' = flush_i + 1]_vars
  /\ [][(chip = "tx4939" /\ life = "unbound" /\ life' = "probing") =>
          (tx_st' /\ tx_gen' = 0)]_vars
  /\ [][chip = "tx4939" =>
          /\ (life = "failed" => life' = "failed")
          /\ (life' = "registered" => life \in {"probing", "registered"})]_vars

C10_Witness ==
  /\ chip = "tx4939" /\ life = "registered" /\ caller = "hwrng"
  /\ pc = "done" /\ ret = 24 /\ TxGenOf(out[0]) = 3

\* the register accesses mxc_rnga_init may have made so far
InitLogs ==
  { <<>>, <<"wake">>, <<"wake", "osc_ok">>, <<"wake", "osc_ok", "go">>,
    <<"wake", "osc_dead">> }

InitOscDead == Len(init_log) >= 2 /\ init_log[2] = "osc_dead"

\* C11: mxc_rnga_init makes, in this order, the wake-up write (SLEEP cleared),
\* the oscillator status read and the start write (GO set); when the status
\* read reports the oscillator dead, init returns -ENODEV without the start
\* write, the probe fails with that error, the source is not registered and no
\* read of it is ever entered.
C11_InitOrderOscDead ==
  /\ [](chip = "rnga" =>
          /\ init_log \in InitLogs
          /\ (life \in {"init_osc", "init_go"} =>
                BitAnd(rnga_ctrl, RNGA_CONTROL_SLEEP) = 0)
          /\ (life \in {"init_done", "reg_done"} /\ ~InitOscDead /\ init_log # <<>> =>
                /\ init_log = <<"wake", "osc_ok", "go">> /\ probe_ret = 0
                /\ BitAnd(rnga_ctrl, RNGA_CONTROL_GO) = RNGA_CONTROL_GO
                /\ BitAnd(rnga_ctrl, RNGA_CONTROL_SLEEP) = 0)
          /\ (InitOscDead =>
                /\ init_log = <<"wake", "osc_dead">>
                /\ life \in {"init_done", "reg_done", "failed"}
                /\ probe_ret = -19
                /\ ~hwrng_reg
                /\ pc = "idle" /\ nPred = 0 /\ nRead = 0))
  /\ [][(chip = "rnga" /\ life = "init_wake" /\ life' # life) =>
          /\ life' = "init_osc"
          /\ rnga_ctrl' = rnga_ctrl - BitAnd(rnga_ctrl, 16)]_vars
  /\ [][(chip = "rnga" /\ InitOscDead) =>
          /\ rnga_ctrl' = rnga_ctrl
          /\ life' \in {"init_done", "reg_done", "failed"}
          /\ (life = "failed" => life' = "failed")]_vars

C11_Witness ==
  /\ chip = "rnga" /\ life = "failed" /\ probe_ret = -19
  /\ init_log = <<"wake", "osc_dead">> /\ ~hwrng_reg /\ ~clk_on

\* C12: one scan (ath9k_rng_data_read) asked for floor(capacity / 4) words
\* makes exactly that many pair iterations, stores the accepted pairs at
\* indices 0, 1, ... without a gap and returns their number, which may be
\* anything from 0 to the number asked for; ath9k_rng_read returns 4 times the
\* count of the last scan and scans again only when wait is true and the
\* previous scan accepted nothing.
C12_ScanCount ==
  /\ []((chip = "ath9k" /\ pc \in {"scan", "poll"}) =>
          /\ nData = 2 * ((nPred - 1) * (cap \div 4) + i)
          /\ i <= cap \div 4
          /\ j <= i
          /\ \A k \in BufIdx : (out[k] # Untouched) <=> (k < j))
  /\ []((chip = "ath9k" /\ pc = "poll") =>
          (i = cap \div 4 /\ u32s_read = j))
  /\ []((chip = "ath9k" /\ pc = "done" /\ ret >= 0) =>
          /\ i = cap \div 4
          /\ nData = 2 * nPred * (cap \div 4)
          /\ ret = 4 * j
          /\ \A k \in BufIdx : (out[k] # Untouched) <=> (k < j))
  /\ [][(chip = "ath9k" /\ pc = "poll" /\ pc' = "scan_begin") =>
          (wait /\ u32s_read = 0)]_vars
  /\ [][(chip = "ath9k" /\ pc = "poll" /\ pc' = "done") =>
          (u32s_read # 0 \/ ~wait \/ nPred = 21)]_vars

C12_Witness ==
  /\ chip = "ath9k" /\ pc = "done" /\ wait /\ cap = 11
  /\ nPred = 2 /\ nData = 8 /\ ret = 4 /\ out[0] # Untouched

\* C13: a tx4939_rng_read call that drains writes RCSR = ST exactly once,
\* after its last output-register read, whether it copied 1, 2 or 3 registers;
\* a call that returns 0 or -EINVAL writes nothing to RCSR.
C13_OneStartWrite ==
  /\ []((chip = "tx4939" /\ pc \in {"rcsr", "poll", "drain"}) => nWrite = 0)
  /\ []((chip = "tx4939" /\ pc = "done") =>
          IF ret > 0
            THEN /\ nWrite = 1
                 /\ nData \in 1..3 /\ ret = 8 * nData
            ELSE nWrite = 0 /\ nData = 0)
  /\ [][(chip = "tx4939" /\ InCall /\ nWrite' # nWrite /\ pc' # "idle") =>
          /\ pc = "drain" /\ pc' = "done"
          /\ nWrite' = 1 /\ tx_st'
          /\ nData = Min(3, cap \div 8) /\ nData' = nData]_vars
  /\ [][(chip = "tx4939" /\ pc = "done") => nData' \in {nData, 0}]_vars

C13_Witness ==
  /\ chip = "tx4939" /\ caller = "hwrng" /\ pc = "done"
  /\ ret = 8 /\ nData = 1 /\ nWrite = 1 /\ tx_st

\* the latest evaluation of the ready predicate found words to return
ReadyNow == avail # 0

\* C14: with wait true and room for one word, a read returns 0 for lack of
\* readiness only after 21 evaluations of the ready predicate that were all
\* false; as soon as an evaluation is true, the 21st (after the 20th delay)
\* included, the call goes on to the drain with what that evaluation found.
C14_ZeroOnlyAfter21 ==
  /\ []((pc = "poll" \/ (chip = "ath9k" /\ pc = "scan")) => nPred = nDelay + 1)
  /\ [][(InCall /\ nPred >= 1 /\ nPred' = nPred + 1) =>
          (wait /\ ~ReadyNow /\ nDelay' = nPred)]_vars
  /\ []((pc = "done" /\ wait /\ cap >= WS /\ ~ReadyNow) =>
          /\ ret = 0 /\ nPred = 21 /\ nDelay = 20
          /\ nData = IF chip = "ath9k" THEN 42 * (cap \div 4) ELSE 0)
  /\ [][(pc = "poll" /\ ReadyNow /\ pc' # pc) =>
          IF chip = "ath9k"
            THEN pc' = "done" /\ ret' = 4 * avail
            ELSE pc' = "drain" /\ max' >= 1 /\ nDelay' = nDelay]_vars
  /\ []((pc = "done" /\ ReadyNow) => (nData >= 1 /\ out[0] # Untouched))

C14_Witness ==
  /\ pc = "done" /\ wait /\ nPred = 21 /\ nDelay = 20 /\ ReadyNow /\ ret > 0
  /\ chip = "tx4939"

\* C15: every word ath9k_rng_data_read writes is (v1 << 16) | v2 of a pair in
\* which neither sample is 0x0000 or 0xffff, v1 differs from v2 and v1 differs
\* from the second sample of the pair read immediately before, also when that
\* pair was rejected or was read by an earlier scan or an earlier call:
\* sc->rng_last carries it and holds, after every scan, the second sample read
\* last.
C15_AcceptedWords ==
  /\ [][(chip = "ath9k" /\ out' # out /\ pc' # "scan_begin" /\ pc = "scan") =>
          LET v1 == out'[j] \div 65536
              v2 == out'[j] % 65536
          IN /\ j' = j + 1
             /\ out' = [out EXCEPT ![j] = out'[j]]
             /\ v1 \in 1..65534 /\ v2 \in 1..65534
             /\ v1 # v2
             /\ v1 # hw_last
             /\ hw_last' = v2]_vars
  /\ [][(chip = "ath9k" /\ out' # out) =>
          (pc = "scan" \/ pc' \in {"idle", "scan_begin", "done"})]_vars
  /\ []((chip = "ath9k" /\ pc = "scan") => rng_last = hw_last)
  /\ []((chip = "ath9k" /\ pc # "scan") => sc_rng_last = hw_last)

C15_Witness ==
  /\ chip = "ath9k" /\ pc = "scan" /\ nPred = 1 /\ i = 1 /\ j = 1
  /\ sc_rng_last = 1 /\ out[0] = 2 * 65536 + 1

\* C16: on a 32-bit build (CONFIG_64BIT not set) every 64-bit register access
\* of tx4939_rng_read and of the reset/start sequence of the probe is made with
\* local interrupts disabled, every retry delay runs with them enabled, they
\* are enabled again on every return path, and disabling and enabling are
\* strictly paired and never nested.
C16_IrqBracketing ==
  /\ []((chip = "tx4939" /\ ~config_64bit) =>
          /\ irq.viol = {}
          /\ irq.off <=> pc = "drain")
  /\ [][(chip = "tx4939" /\ ~config_64bit /\ pc' = "idle") => ~irq.off']_vars
  /\ [][(chip = "tx4939" /\ ~config_64bit /\ nDelay' = nDelay + 1) =>
          (~irq.off /\ ~irq.off')]_vars
  /\ [][(chip = "tx4939" /\ ~config_64bit /\ nData' = nData + 1) =>
          (irq.off /\ irq.off')]_vars

C16_Witness ==
  /\ chip = "tx4939" /\ ~config_64bit /\ caller = "hwrng"
  /\ pc = "drain" /\ i = 2 /\ nDelay = 20 /\ irq.off

\* the detach of the RNGA device has run (to its end or into a fault)
RngaDetached == chip = "rnga" /\ life \in {"removed", "crashed"}

\* C17: mxc_rnga_cleanup writes the control register once with exactly GO
\* cleared from the value it has just read and reads no FIFO word; at detach
\* (mxc_rnga_remove) the clock is released exactly once, and only after the
\* framework unregistration that runs the stop command.
C17_DetachStopsThenReleases ==
  /\ [](RngaDetached =>
          /\ ~hwrng_reg
          /\ BitAnd(rnga_ctrl, RNGA_CONTROL_GO) = 0
          /\ ~clk_on /\ nClkOff = 1)
  /\ [][(chip = "rnga" /\ life = "registered" /\ life' # life) =>
          /\ life' = "removed"
          /\ rnga_ctrl' = rnga_ctrl - BitAnd(rnga_ctrl, 1)
          /\ nData' = nData]_vars

\* the RNGA driver is between two driver-model calls
RngaQuiet ==
  chip = "rnga" /\ life \in {"unbound", "failed", "registered", "removed", "crashed"}

\* C19: for the RNGA driver the clock is enabled exactly while the source is
\* registered, at every point between driver-model calls: a probe that fails
\* after enabling the clock disables it again, and mxc_rnga_remove finds in the
\* driver data the instance the probe allocated, unregisters it and disables
\* its clock.
C19_ClockIffRegistered ==
  /\ RngaQuiet => (clk_on <=> hwrng_reg)
  /\ (chip = "rnga" /\ life = "failed") => (~clk_on /\ ~hwrng_reg)
  /\ (chip = "rnga" /\ life = "registered") =>
       (drvdata = "mxc_rng" /\ clk_on /\ hwrng_reg)
  /\ RngaDetached => (drvdata = "mxc_rng" /\ ~hwrng_reg /\ ~clk_on)

\* C18 as stated: a read that returns b >= 0 bytes leaves every byte of the
\* buffer at offset >= b as it was, for each of the three entry points and
\* under every hardware behaviour (writes are whole aligned words, so offsets
\* are counted in words).
C18_TailUntouched ==
  (pc = "done" /\ ret >= 0) =>
     \A k \in BufIdx : k >= ret \div WS => out[k] = Untouched

\* C18 as amended: the same, except that mxc_rnga_read, when it detects a
\* fault during the drain, has also stored the faulting FIFO word at offset b
\* (inside the capacity) without counting it; the words counted are all
\* written and nothing is ever written outside the capacity.
C18_TailUntouchedButFaultWord ==
  /\ (pc = "done" /\ ret >= 0) =>
       \A k \in BufIdx :
          /\ k < ret \div WS => out[k] # Untouched
          /\ (k >= ret \div WS /\ out[k] # Untouched) =>
               /\ chip = "rnga" /\ err # 0 /\ nClear = 1
               /\ k = ret \div 4
          /\ (chip # "rnga" \/ err = 0) =>
               (k >= ret \div WS => out[k] = Untouched)
  /\ (pc = "done" /\ ret < 0) => \A k \in BufIdx : out[k] = Untouched
  /\ \A k \in BufIdx : out[k] # Untouched => (k + 1) * WS <= cap

C18_Witness ==
  /\ chip = "rnga" /\ pc = "done" /\ err # 0 /\ ret = 4
  /\ out[0] # Untouched /\ out[1] # Untouched /\ out[2] = Untouched

\* C20: with one caller at a time and hardware that keeps RCSR.ST set from the
\* start write until the new generation is complete, tx4939_rng_read reads
\* output registers only while ST is clear, and two successful reads never
\* return words of the same generation: between them the hardware was started
\* again and completed a new generation.
C20_FreshGeneration ==
  /\ []((chip = "tx4939" /\ pc = "drain") =>
          (~tx_st /\ tx_gen > tx_last_gen))
  /\ [][(chip = "tx4939" /\ nData' = nData + 1) =>
          (~tx_st /\ TxGenOf(out'[i]) = tx_gen /\ tx_gen > tx_last_gen)]_vars
  /\ []((chip = "tx4939" /\ pc = "done" /\ ret > 0) =>
          \A k \in BufIdx : k < ret \div 8 => TxGenOf(out[k]) = tx_last_gen)
  /\ [][(chip = "tx4939" /\ tx_last_gen' # tx_last_gen /\ life # "unbound") =>
          (tx_last_gen' > tx_last_gen /\ tx_st')]_vars

C20_Witness ==
  /\ chip = "tx4939" /\ caller = "hwrng" /\ pc = "drain" /\ i = 1
  /\ tx_last_gen = 3 /\ tx_gen = 4 /\ ~tx_st

====
